---- MODULE Spec2Model ----
(***************************************************************************)
(* Model of backend/utils/audio_processing.py: summarize_text and the      *)
(* functions it is built from (_code_to_lang_name, _loose_json_extract,    *)
(* _coerce_structured_notes), with json.loads / json.dumps / str() / the   *)
(* regular expressions modelled character by character.                    *)
(*                                                                         *)
(* A Python str is a sequence of one-character TLA+ strings.  The bullet   *)
(* glyph U+2022 is the symbol Bullet.  Python indices are 0-based; here    *)
(* positions are 1-based and 0 stands for "not found" (-1 in Python).      *)
(***************************************************************************)
EXTENDS Integers, Sequences, FiniteSets, TLC

\* --------------------------------------------------------------------------
\* Characters
\* --------------------------------------------------------------------------
UpperChars == <<"A", "B", "C", "D", "E", "F", "G", "H", "I", "J", "K", "L", "M", "N", "O", "P", "Q", "R", "S", "T", "U", "V", "W", "X", "Y", "Z">>
LowerChars == <<"a", "b", "c", "d", "e", "f", "g", "h", "i", "j", "k", "l", "m", "n", "o", "p", "q", "r", "s", "t", "u", "v", "w", "x", "y", "z">>
DigitChars == <<"0", "1", "2", "3", "4", "5", "6", "7", "8", "9">>
Bullet == "U+2022"
Backtick == "U+0060"

Range(f) == {f[i] : i \in DOMAIN f}

\* str.lower() on one character, and on a string
LowerOf == [c \in {UpperChars[i] : i \in 1..26} |-> LowerChars[CHOOSE i \in 1..26 : UpperChars[i] = c]]
LowerChar(c) == IF c \in DOMAIN LowerOf THEN LowerOf[c] ELSE c
Lower(s) == [i \in 1..Len(s) |-> LowerChar(s[i])]

\* \s of the re module and the characters str.strip() removes
IsSpace(c) == c \in {" ", "\n", "\t"}
\* \w of the re module
IsWord(c) == c \in Range(UpperChars) \cup Range(LowerChars) \cup Range(DigitChars) \cup {"_"}

Min(a, b) == IF a < b THEN a ELSE b

\* s[:n]
Take(s, n) == SubSeq(s, 1, Min(Len(s), n))
\* s[i:] with i a 1-based position
From(s, i) == SubSeq(s, i, Len(s))

\* s.startswith(w, i-1): w occurs in s at position i
MatchAt(s, i, w) == i >= 1 /\ i + Len(w) - 1 <= Len(s) /\ SubSeq(s, i, i + Len(w) - 1) = w

\* least and greatest element of a set of positions, 0 for the empty set
SetMin(S) == IF S = {} THEN 0 ELSE CHOOSE j \in S : \A k \in S : j <= k
SetMax(S) == IF S = {} THEN 0 ELSE CHOOSE j \in S : \A k \in S : j >= k

\* str.strip(chars): cs is the set of stripped characters
Between(s, keep) == IF keep = {} THEN <<>> ELSE SubSeq(s, SetMin(keep), SetMax(keep))
StripSet(s, cs) == Between(s, {i \in 1..Len(s) : s[i] \notin cs})
\* str.strip()
Strip(s) == StripSet(s, {" ", "\n", "\t"})

\* --------------------------------------------------------------------------
\* Python values (json.loads results, and the records the functions return)
\*   t: type tag; n: int / bool payload; s: str payload;
\*   ks, xs: dict keys and values in insertion order; xs: list items
\* --------------------------------------------------------------------------
VNone == [t |-> "None", n |-> 0, s |-> <<>>, ks |-> <<>>, xs |-> <<>>]
VBool(b) == [t |-> "bool", n |-> IF b THEN 1 ELSE 0, s |-> <<>>, ks |-> <<>>, xs |-> <<>>]
VInt(i) == [t |-> "int", n |-> i, s |-> <<>>, ks |-> <<>>, xs |-> <<>>]
VStr(str) == [t |-> "str", n |-> 0, s |-> str, ks |-> <<>>, xs |-> <<>>]
VList(items) == [t |-> "list", n |-> 0, s |-> <<>>, ks |-> <<>>, xs |-> items]
VDict(keys, vals) == [t |-> "dict", n |-> 0, s |-> <<>>, ks |-> keys, xs |-> vals]

\* bool(v): Python truthiness, as used by "x or default"
Truthy(v) ==
    CASE v.t = "None" -> FALSE
      [] v.t = "bool" -> v.n = 1
      [] v.t = "int" -> v.n # 0
      [] v.t = "str" -> v.s # <<>>
      [] v.t = "list" -> v.xs # <<>>
      [] v.t = "dict" -> v.ks # <<>>

\* v or d
Or(v, d) == IF Truthy(v) THEN v ELSE d

\* d[k] = v on a dict: an existing key keeps its position and takes the new value
DictSet(d, k, v) ==
    IF \E i \in 1..Len(d.ks) : d.ks[i] = k
    THEN VDict(d.ks, [d.xs EXCEPT ![CHOOSE i \in 1..Len(d.ks) : d.ks[i] = k] = v])
    ELSE VDict(Append(d.ks, k), Append(d.xs, v))

\* d.get(k, default)
DictGet(d, k, default) ==
    IF \E i \in 1..Len(d.ks) : d.ks[i] = k
    THEN d.xs[CHOOSE i \in 1..Len(d.ks) : d.ks[i] = k]
    ELSE default

\* First / last position in lo..hi satisfying P, 0 when there is none
FirstIdx(lo, hi, P(_)) == SetMin({j \in lo..hi : P(j)})
LastIdx(lo, hi, P(_)) == SetMax({j \in lo..hi : P(j)})
\* a position j found in a string of length n, or the end n + 1 when j = 0
OrEnd(j, n) == IF j = 0 THEN n + 1 ELSE j

\* --------------------------------------------------------------------------
\* String literals of the source
\* --------------------------------------------------------------------------
K_executive_summary == <<"e", "x", "e", "c", "u", "t", "i", "v", "e", "_", "s", "u", "m", "m", "a", "r", "y">>
K_key_points == <<"k", "e", "y", "_", "p", "o", "i", "n", "t", "s">>
K_action_items == <<"a", "c", "t", "i", "o", "n", "_", "i", "t", "e", "m", "s">>
K_decisions == <<"d", "e", "c", "i", "s", "i", "o", "n", "s">>
K_sentiment == <<"s", "e", "n", "t", "i", "m", "e", "n", "t">>
K_task == <<"t", "a", "s", "k">>
K_owner == <<"o", "w", "n", "e", "r">>
K_due == <<"d", "u", "e">>
S_Positive == <<"P", "o", "s", "i", "t", "i", "v", "e">>
S_Neutral == <<"N", "e", "u", "t", "r", "a", "l">>
S_Negative == <<"N", "e", "g", "a", "t", "i", "v", "e">>
S_Unknown == <<"U", "n", "k", "n", "o", "w", "n">>
S_English == <<"E", "n", "g", "l", "i", "s", "h">>
S_Urdu == <<"U", "r", "d", "u">>
S_Hindi == <<"H", "i", "n", "d", "i">>
S_Ellipsis == <<".", ".", ".">>

\* --------------------------------------------------------------------------
\* _code_to_lang_name
\* --------------------------------------------------------------------------
\* the dict m: keys and values in the order of the literal
LangKeys == << <<"e", "n">>, <<"u", "r">>, <<"h", "i">>, <<"a", "u", "t", "o">>,
               <<"e", "n", "g", "l", "i", "s", "h">>, <<"u", "r", "d", "u">>,
               <<"h", "i", "n", "d", "i">> >>
LangNames == <<S_English, S_Urdu, S_Hindi, S_English, S_English, S_Urdu, S_Hindi>>

\* faulty variant: the lookup without .lower()
code_to_lang_name_exact(code) ==
    LET key == Or(code, VStr(<<>>)).s
    IN  IF \E i \in 1..Len(LangKeys) : LangKeys[i] = key
        THEN LangNames[CHOOSE i \in 1..Len(LangKeys) : LangKeys[i] = key]
        ELSE S_English

\* code is a Python value: a str or None
code_to_lang_name(code) ==
    LET key == Lower(Or(code, VStr(<<>>)).s)
    IN  IF \E i \in 1..Len(LangKeys) : LangKeys[i] = key
        THEN LangNames[CHOOSE i \in 1..Len(LangKeys) : LangKeys[i] = key]
        ELSE S_English

\* --------------------------------------------------------------------------
\* _loose_json_extract
\* --------------------------------------------------------------------------
\* text.find(c) and text.rfind(c); 0 when c does not occur
Find(text, c) == FirstIdx(1, Len(text), LAMBDA j : text[j] = c)
RFind(text, c) == LastIdx(1, Len(text), LAMBDA j : text[j] = c)

\* faulty variant: the substring starts at the last "{"
loose_json_extract_last_open(text) ==
    LET start == RFind(text, "{")
        end == RFind(text, "}")
    IN  IF start # 0 /\ end # 0 /\ end > start
        THEN SubSeq(text, start, end)
        ELSE text

loose_json_extract(text) ==
    LET start == Find(text, "{")
        end == RFind(text, "}")
    IN  IF start # 0 /\ end # 0 /\ end > start
        THEN SubSeq(text, start, end)
        ELSE text

\* --------------------------------------------------------------------------
\* json.loads (json.decoder / json.scanner), strict mode.
\* Number literals are the integers -?(0|[1-9][0-9]*); escapes are those
\* whose character is in the alphabet: \" \\ \/ \n \t and \u2022.
\* A result is [ok, v, pos]: ok = FALSE is a raised JSONDecodeError, pos is
\* the position after the value.
\* --------------------------------------------------------------------------
JFail == [ok |-> FALSE, v |-> VNone, pos |-> 0]
JOk(v, pos) == [ok |-> TRUE, v |-> v, pos |-> pos]

\* WHITESPACE.match(s, i).end()
SkipWs(t, i) == OrEnd(FirstIdx(i, Len(t), LAMBDA k : t[k] \notin {" ", "\t", "\n"}), Len(t))

\* BACKSLASH table of json.decoder
Unescape(c) ==
    CASE c = "n" -> "\n"
      [] c = "t" -> "\t"
      [] OTHER -> c
Escapable == {"\"", "\\", "/", "n", "t"}
BulletCode == <<"2", "0", "2", "2">>

\* py_scanstring: i is the position after the opening quote, acc the chunks so far
RECURSIVE ScanString(_, _, _)
ScanString(t, i, acc) ==
    LET j == FirstIdx(i, Len(t), LAMBDA k : t[k] \in {"\"", "\\", "\n", "\t"})
    IN  IF j = 0 THEN JFail
        ELSE LET acc2 == acc \o SubSeq(t, i, j - 1)
             IN  IF t[j] = "\"" THEN JOk(VStr(acc2), j + 1)
                 ELSE IF t[j] # "\\" THEN JFail
                 ELSE IF j + 1 > Len(t) THEN JFail
                 ELSE IF t[j + 1] = "u"
                      THEN IF MatchAt(t, j + 2, BulletCode)
                           THEN ScanString(t, j + 6, Append(acc2, Bullet))
                           ELSE JFail
                 ELSE IF t[j + 1] \in Escapable
                      THEN ScanString(t, j + 2, Append(acc2, Unescape(t[j + 1])))
                 ELSE JFail

IsDigit(c) == c \in Range(DigitChars)
DigitVal(c) == (CHOOSE i \in 1..10 : DigitChars[i] = c) - 1

\* int(digits)
RECURSIVE DigitsToInt(_)
DigitsToInt(ds) ==
    IF ds = <<>> THEN 0
    ELSE 10 * DigitsToInt(SubSeq(ds, 1, Len(ds) - 1)) + DigitVal(ds[Len(ds)])

\* NUMBER_RE at position i: (-?(?:0|[1-9]\d*))
ScanNumber(t, i) ==
    LET neg == t[i] = "-"
        d == IF neg THEN i + 1 ELSE i
    IN  IF d > Len(t) \/ ~IsDigit(t[d]) THEN JFail
        ELSE LET stop == FirstIdx(d, Len(t), LAMBDA k : ~IsDigit(t[k]))
                 e == IF t[d] = "0" THEN d + 1
                      ELSE IF stop = 0 THEN Len(t) + 1 ELSE stop
                 mag == DigitsToInt(SubSeq(t, d, e - 1))
             IN  JOk(VInt(IF neg THEN 0 - mag ELSE mag), e)

RECURSIVE ParseValue(_, _), ParseMembers(_, _, _), ParseItems(_, _, _)

\* scan_once: i is the position of the first character of the value
ParseValue(t, i) ==
    IF i > Len(t) THEN JFail
    ELSE IF t[i] = "\"" THEN ScanString(t, i + 1, <<>>)
    ELSE IF t[i] = "{"
         THEN LET q == SkipWs(t, i + 1)
              IN  IF q > Len(t) THEN JFail
                  ELSE IF t[q] = "}" THEN JOk(VDict(<<>>, <<>>), q + 1)
                  ELSE IF t[q] = "\"" THEN ParseMembers(t, q + 1, VDict(<<>>, <<>>))
                  ELSE JFail
    ELSE IF t[i] = "["
         THEN LET q == SkipWs(t, i + 1)
              IN  IF q > Len(t) THEN JFail
                  ELSE IF t[q] = "]" THEN JOk(VList(<<>>), q + 1)
                  ELSE ParseItems(t, q, <<>>)
    ELSE IF MatchAt(t, i, <<"n", "u", "l", "l">>) THEN JOk(VNone, i + 4)
    ELSE IF MatchAt(t, i, <<"t", "r", "u", "e">>) THEN JOk(VBool(TRUE), i + 4)
    ELSE IF MatchAt(t, i, <<"f", "a", "l", "s", "e">>) THEN JOk(VBool(FALSE), i + 5)
    ELSE IF t[i] = "-" \/ IsDigit(t[i]) THEN ScanNumber(t, i)
    ELSE JFail

\* JSONObject: i is the position after the opening quote of the next key
ParseMembers(t, i, d) ==
    LET k == ScanString(t, i, <<>>)
    IN  IF ~k.ok THEN JFail
        ELSE LET c == SkipWs(t, k.pos)
             IN  IF c > Len(t) \/ t[c] # ":" THEN JFail
                 ELSE LET v == ParseValue(t, SkipWs(t, c + 1))
                      IN  IF ~v.ok THEN JFail
                          ELSE LET e == SkipWs(t, v.pos)
                                   d2 == DictSet(d, k.v.s, v.v)
                               IN  IF e > Len(t) THEN JFail
                                   ELSE IF t[e] = "}" THEN JOk(d2, e + 1)
                                   ELSE IF t[e] # "," THEN JFail
                                   ELSE LET q == SkipWs(t, e + 1)
                                        IN  IF q <= Len(t) /\ t[q] = "\""
                                            THEN ParseMembers(t, q + 1, d2)
                                            ELSE JFail

\* JSONArray: i is the position of the next item
ParseItems(t, i, items) ==
    LET v == ParseValue(t, i)
    IN  IF ~v.ok THEN JFail
        ELSE LET e == SkipWs(t, v.pos)
                 items2 == Append(items, v.v)
             IN  IF e > Len(t) THEN JFail
                 ELSE IF t[e] = "]" THEN JOk(VList(items2), e + 1)
                 ELSE IF t[e] # "," THEN JFail
                 ELSE ParseItems(t, SkipWs(t, e + 1), items2)

\* json.loads(s): ok = FALSE when it raises
JsonLoads(t) ==
    LET r == ParseValue(t, SkipWs(t, 1))
    IN  IF r.ok /\ SkipWs(t, r.pos) = Len(t) + 1 THEN r ELSE JFail

\* --------------------------------------------------------------------------
\* str() and repr() of a Python value
\* --------------------------------------------------------------------------
RECURSIVE NatToChars(_)
NatToChars(n) ==
    IF n < 10 THEN <<DigitChars[n + 1]>>
    ELSE Append(NatToChars(n \div 10), DigitChars[(n % 10) + 1])
\* str(int)
IntToChars(n) == IF n < 0 THEN <<"-">> \o NatToChars(0 - n) ELSE NatToChars(n)

\* the body of repr(str) between the quotes; q is the quote character chosen
RECURSIVE ReprBody(_, _, _)
ReprBody(s, i, q) ==
    LET j == FirstIdx(i, Len(s), LAMBDA k : s[k] \in {"\\", "\n", "\t", q})
    IN  IF j = 0 THEN From(s, i)
        ELSE SubSeq(s, i, j - 1)
             \o (CASE s[j] = "\n" -> <<"\\", "n">>
                   [] s[j] = "\t" -> <<"\\", "t">>
                   [] OTHER -> <<"\\", s[j]>>)
             \o ReprBody(s, j + 1, q)

\* repr(str): double quotes when the string has ' and no ", else single quotes
ReprStr(s) ==
    LET q == IF (\E i \in 1..Len(s) : s[i] = "'") /\ ~(\E i \in 1..Len(s) : s[i] = "\"")
             THEN "\"" ELSE "'"
    IN  <<q>> \o ReprBody(s, 1, q) \o <<q>>

RECURSIVE PyRepr(_), ReprItems(_, _), ReprPairs(_, _, _)
\* repr(v)
PyRepr(v) ==
    CASE v.t = "None" -> <<"N", "o", "n", "e">>
      [] v.t = "bool" -> IF v.n = 1 THEN <<"T", "r", "u", "e">> ELSE <<"F", "a", "l", "s", "e">>
      [] v.t = "int" -> IntToChars(v.n)
      [] v.t = "str" -> ReprStr(v.s)
      [] v.t = "list" -> <<"[">> \o ReprItems(v.xs, 1) \o <<"]">>
      [] v.t = "dict" -> <<"{">> \o ReprPairs(v.ks, v.xs, 1) \o <<"}">>
\* ", ".join(repr(x) for x in xs[i-1:])
ReprItems(xs, i) ==
    IF i > Len(xs) THEN <<>>
    ELSE PyRepr(xs[i]) \o (IF i < Len(xs) THEN <<",", " ">> ELSE <<>>) \o ReprItems(xs, i + 1)
ReprPairs(ks, xs, i) ==
    IF i > Len(ks) THEN <<>>
    ELSE ReprStr(ks[i]) \o <<":", " ">> \o PyRepr(xs[i])
         \o (IF i < Len(ks) THEN <<",", " ">> ELSE <<>>) \o ReprPairs(ks, xs, i + 1)

\* str(v): a str is itself, everything else is its repr
PyStr(v) == IF v.t = "str" THEN v.s ELSE PyRepr(v)

\* list(v): ok = FALSE is a raised TypeError
PyList(v) ==
    CASE v.t = "list" -> [ok |-> TRUE, xs |-> v.xs]
      [] v.t = "str" -> [ok |-> TRUE, xs |-> [i \in 1..Len(v.s) |-> VStr(<<v.s[i]>>)]]
      [] v.t = "dict" -> [ok |-> TRUE, xs |-> [i \in 1..Len(v.ks) |-> VStr(v.ks[i])]]
      [] OTHER -> [ok |-> FALSE, xs |-> <<>>]

\* --------------------------------------------------------------------------
\* The record every path returns
\* --------------------------------------------------------------------------
RecordKeys == <<K_executive_summary, K_key_points, K_action_items, K_decisions, K_sentiment>>
ItemKeys == <<K_task, K_owner, K_due>>
MaxItems == 10

Notes(exec_sum, key_points, action_items, decisions, sentiment) ==
    VDict(RecordKeys, <<exec_sum, key_points, action_items, decisions, sentiment>>)
ActionItem(task, owner, due) == VDict(ItemKeys, <<task, owner, due>>)

\* --------------------------------------------------------------------------
\* _coerce_structured_notes, part 1: normalisation of the parsed JSON
\* (the body of the try block after json.loads).  It raises AttributeError
\* when data has no .get and TypeError when list() is given a number.
\* --------------------------------------------------------------------------
\* faulty variant: a dict entry is kept as it came
CoerceItemKeep(itm) ==
    IF itm.t = "dict" THEN itm ELSE ActionItem(VStr(PyStr(itm)), VStr(<<>>), VStr(<<>>))

\* one entry of action_items
CoerceItem(itm) ==
    IF itm.t = "dict"
    THEN ActionItem(VStr(PyStr(Or(DictGet(itm, K_task, VStr(<<>>)), VStr(<<>>)))),
                    VStr(PyStr(Or(DictGet(itm, K_owner, VStr(<<>>)), VStr(<<>>)))),
                    VStr(PyStr(Or(DictGet(itm, K_due, VStr(<<>>)), VStr(<<>>)))))
    ELSE ActionItem(VStr(PyStr(itm)), VStr(<<>>), VStr(<<>>))

\* faulty variant: the membership test ignores letter case
CloseSentimentAnyCase(sentiment) ==
    IF Lower(sentiment) \in {Lower(S_Positive), Lower(S_Neutral), Lower(S_Negative)}
    THEN sentiment ELSE S_Unknown

\* sentiment if sentiment in ["Positive", "Neutral", "Negative"] else "Unknown"
CloseSentiment(sentiment) ==
    IF sentiment \in {S_Positive, S_Neutral, S_Negative} THEN sentiment ELSE S_Unknown

\* faulty variants: no slice, and the slice xs[-10:]
CapNone(xs) == xs
CapLast(xs) == From(xs, Len(xs) - Min(Len(xs), MaxItems) + 1)

\* xs[:10]
Cap(xs) == Take(xs, MaxItems)

\* faulty variant: [repr(x) for x in xs]
StrItemsRepr(xs) == [i \in 1..Len(xs) |-> VStr(PyRepr(xs[i]))]

\* [str(x) for x in xs]
StrItems(xs) == [i \in 1..Len(xs) |-> VStr(PyStr(xs[i]))]

\* exc: the exception the block raises, "none" when it returns rec
Normalise(data) ==
    IF data.t # "dict" THEN [exc |-> "AttributeError", rec |-> VNone]
    ELSE
    LET exec_sum == PyStr(Or(DictGet(data, K_executive_summary, VStr(<<>>)), VStr(<<>>)))
        key_points == PyList(Or(DictGet(data, K_key_points, VList(<<>>)), VList(<<>>)))
        action_items == PyList(Or(DictGet(data, K_action_items, VList(<<>>)), VList(<<>>)))
        decisions == PyList(Or(DictGet(data, K_decisions, VList(<<>>)), VList(<<>>)))
        sentiment == PyStr(Or(DictGet(data, K_sentiment, VStr(<<>>)), VStr(S_Unknown)))
    IN  IF ~key_points.ok \/ ~action_items.ok \/ ~decisions.ok
        THEN [exc |-> "TypeError", rec |-> VNone]
        ELSE LET coerced_ai == [i \in 1..Len(action_items.xs) |-> CoerceItem(action_items.xs[i])]
             IN  [exc |-> "none",
                  rec |-> Notes(VStr(exec_sum),
                                VList(Cap(StrItems(key_points.xs))),
                                VList(Cap(coerced_ai)),
                                VList(Cap(StrItems(decisions.xs))),
                                VStr(CloseSentiment(sentiment)))]

\* --------------------------------------------------------------------------
\* _coerce_structured_notes, part 2: the heuristic fallback and its regular
\* expressions.  All of them carry (?i); the words are given in lower case.
\* --------------------------------------------------------------------------
W_action == <<"a", "c", "t", "i", "o", "n">>
W_todo == <<"t", "o", "d", "o">>
W_task == <<"t", "a", "s", "k">>
W_owner == <<"o", "w", "n", "e", "r">>
W_due == <<"d", "u", "e">>
W_decision == <<"d", "e", "c", "i", "s", "i", "o", "n">>
W_decided == <<"d", "e", "c", "i", "d", "e", "d">>
W_positive == <<"p", "o", "s", "i", "t", "i", "v", "e">>
W_neutral == <<"n", "e", "u", "t", "r", "a", "l">>
W_negative == <<"n", "e", "g", "a", "t", "i", "v", "e">>

\* (?i)w matches s at position i
IMatchAt(s, i, w) ==
    /\ i >= 1
    /\ i + Len(w) - 1 <= Len(s)
    /\ \A k \in 1..Len(w) : LowerChar(s[i + k - 1]) = w[k]

\* (?i)\bw\b matches s at position i (w is made of word characters)
WordAt(s, i, w) ==
    /\ IMatchAt(s, i, w)
    /\ (i = 1 \/ ~IsWord(s[i - 1]))
    /\ (i + Len(w) > Len(s) \/ ~IsWord(s[i + Len(w)]))

\* re.search(r"(?i)\b(w1|w2|...)\b", s) is not None
HasWord(s, ws) == \E i \in 1..Len(s) : \E w \in ws : WordAt(s, i, w)

\* str.splitlines(); the only line boundary of the alphabet is "\n"
RECURSIVE SplitLines(_), SplitAt(_, _)
SplitLines(t) == IF t = <<>> THEN <<>> ELSE SplitAt(t, Find(t, "\n"))
\* j is the position of the first "\n" of t
SplitAt(t, j) ==
    IF j = 0 THEN <<t>> ELSE <<SubSeq(t, 1, j - 1)>> \o SplitLines(From(t, j + 1))

\* first position >= i that is not \s (Len + 1 when there is none)
SkipSpace(s, i) == OrEnd(FirstIdx(i, Len(s), LAMBDA k : ~IsSpace(s[k])), Len(s))

\* (w1|w2)\s*[:\-]\s*([^|,;]+) matched at position i (bounded = TRUE: with a
\* leading \b).  gs..ge-1 is group 1, ge the end of the match.  Both \s* are
\* greedy; when no value character follows the second one it gives back its
\* last space.
NoField == [ok |-> FALSE, gs |-> 0, ge |-> 0]
FieldStops == {"|", ",", ";"}
\* [^|,;]+ from position g on
FieldEnd(s, g) ==
    [ok |-> TRUE, gs |-> g,
     ge |-> OrEnd(FirstIdx(g + 1, Len(s), LAMBDA k : s[k] \in FieldStops), Len(s))]
\* \s*([^|,;]+) after the separator at position q; r is where the spaces end
FieldGroup(s, q, r) ==
    IF r <= Len(s) /\ s[r] \notin FieldStops THEN FieldEnd(s, r)
    ELSE IF r > q + 1 THEN FieldEnd(s, r - 1)
    ELSE NoField
\* [:\-] at position q, where the spaces after the word end
FieldSep(s, q) ==
    IF q > Len(s) \/ s[q] \notin {":", "-"} THEN NoField
    ELSE FieldGroup(s, q, SkipSpace(s, q + 1))
FieldAt(s, i, ws, bounded) ==
    IF (\E w \in ws : IMatchAt(s, i, w)) /\ ~(bounded /\ i > 1 /\ IsWord(s[i - 1]))
    THEN FieldSep(s, SkipSpace(s, i + Len(CHOOSE w \in ws : IMatchAt(s, i, w))))
    ELSE NoField

\* group(1).strip() of a match, "" when there is none
GroupText(line, m) == IF m.ok THEN Strip(SubSeq(line, m.gs, m.ge - 1)) ELSE <<>>
\* re.search(r"(?i)w\s*[:\-]\s*([^|,;]+)", line): the leftmost match
FieldValue(line, w) ==
    GroupText(line, FieldAt(line, FirstIdx(1, Len(line), LAMBDA k : FieldAt(line, k, {w}, FALSE).ok),
                            {w}, FALSE))

\* re.sub(r"(?i)\b(owner|due)\s*[:\-]\s*[^|,;]+", "", s), from position i on
RECURSIVE SubOwnerDue(_, _), CutField(_, _, _)
SubOwnerDue(s, i) ==
    CutField(s, i, FirstIdx(i, Len(s), LAMBDA k : FieldAt(s, k, {W_owner, W_due}, TRUE).ok))
\* m is the position of the next match, 0 when there is none
CutField(s, i, m) ==
    IF m = 0 THEN From(s, i)
    ELSE SubSeq(s, i, m - 1) \o SubOwnerDue(s, FieldAt(s, m, {W_owner, W_due}, TRUE).ge)

Labels == {W_action, W_todo, W_task}
\* [:\-]? at position e
OptSep(s, e) == IF e <= Len(s) /\ s[e] \in {":", "-"} THEN e + 1 ELSE e
\* ws: the labels that match at position i (at most one does)
LabelEnd(s, i, ws) == IF ws = {} THEN 0 ELSE OptSep(s, i + Len(CHOOSE w \in ws : TRUE))
\* \b(action|todo|task)\b[:\-]? matched at position i: the end of the match, 0 when none
LabelEndAt(s, i) == LabelEnd(s, i, {w \in Labels : WordAt(s, i, w)})

\* re.sub(r"(?i)\b(action|todo|task)\b[:\-]?", "", s), from position i on
RECURSIVE SubLabels(_, _), CutLabel(_, _, _)
SubLabels(s, i) == CutLabel(s, i, FirstIdx(i, Len(s), LAMBDA k : LabelEndAt(s, k) # 0))
CutLabel(s, i, m) ==
    IF m = 0 THEN From(s, i)
    ELSE SubSeq(s, i, m - 1) \o SubLabels(s, LabelEndAt(s, m))

\* "if task: action_items.append(...)"
ItemOf(task, owner, due) ==
    IF task = <<>> THEN <<>> ELSE <<ActionItem(VStr(task), VStr(owner), VStr(due))>>
\* the action items one line adds: one or none
LineAction(line) ==
    IF HasWord(line, Labels)
    THEN ItemOf(StripSet(SubLabels(SubOwnerDue(line, 1), 1), {" ", "-", ":", Bullet}),
                FieldValue(line, W_owner), FieldValue(line, W_due))
    ELSE <<>>

\* the loop over ai_text.splitlines() that fills action_items
RECURSIVE ActionLines(_, _)
ActionLines(lines, i) ==
    IF i > Len(lines) THEN <<>> ELSE LineAction(lines[i]) \o ActionLines(lines, i + 1)

\* the decisions one line adds: one or none
LineDecision(line) ==
    IF HasWord(line, {W_decision, W_decided}) THEN <<VStr(Strip(line))>> ELSE <<>>
\* the loop over ai_text.splitlines() that fills decisions
RECURSIVE DecisionLines(_, _)
DecisionLines(lines, i) ==
    IF i > Len(lines) THEN <<>> ELSE LineDecision(lines[i]) \o DecisionLines(lines, i + 1)

\* (?m)^[\-\*•]\s+(.*)$ matched at position i: \s+ also runs over newlines,
\* (.*) is the rest of the line where the spaces end
BulletAt(t, i) ==
    /\ (i = 1 \/ t[i - 1] = "\n")
    /\ t[i] \in {"-", "*", Bullet}
    /\ i + 1 <= Len(t)
    /\ IsSpace(t[i + 1])
\* end of the line that holds position i (the position of its "\n", or Len + 1)
LineEnd(t, i) == OrEnd(FirstIdx(i, Len(t), LAMBDA k : t[k] = "\n"), Len(t))

\* re.findall of the bullet pattern from position i on, each group stripped
RECURSIVE Bullets(_, _), BulletFrom(_, _), BulletText(_, _, _)
Bullets(t, i) == BulletFrom(t, FirstIdx(i, Len(t), LAMBDA k : BulletAt(t, k)))
\* m is the position of the next match, 0 when there is none
BulletFrom(t, m) ==
    IF m = 0 THEN <<>> ELSE BulletText(t, SkipSpace(t, m + 1), LineEnd(t, SkipSpace(t, m + 1)))
\* g..e-1 is the group, e the end of the match
BulletText(t, g, e) == <<VStr(Strip(SubSeq(t, g, e - 1)))>> \o Bullets(t, e)

\* the sentiment guess
GuessSentiment(ai_text) ==
    IF HasWord(ai_text, {W_positive}) THEN S_Positive
    ELSE IF HasWord(ai_text, {W_neutral}) THEN S_Neutral
    ELSE IF HasWord(ai_text, {W_negative}) THEN S_Negative
    ELSE S_Unknown

SummaryBudget == 2000

Heuristic(ai_text) ==
    Notes(VStr(Take(Strip(ai_text), SummaryBudget)),
          VList(Cap(Bullets(ai_text, 1))),
          VList(Cap(ActionLines(SplitLines(ai_text), 1))),
          VList(Cap(DecisionLines(SplitLines(ai_text), 1))),
          VStr(GuessSentiment(ai_text)))

\* --------------------------------------------------------------------------
\* _coerce_structured_notes.  tier: 1 when the whole text was parsed, 2 when
\* the brace substring was, 3 for the heuristic fallback.  raised: an
\* exception leaves the function.  The transcript parameter is never read.
\* --------------------------------------------------------------------------
\* the try block: json.loads, then the normalisation
TryJson(raw) ==
    LET data == JsonLoads(raw)
    IN  IF data.ok THEN Normalise(data.v) ELSE [exc |-> "JSONDecodeError", rec |-> VNone]

\* faulty variant: "except json.JSONDecodeError"
CaughtDecodeOnly(exc) == exc = "JSONDecodeError"

\* "except Exception": every exception the block can raise derives from Exception
Caught(exc) == exc \in {"JSONDecodeError", "AttributeError", "TypeError"}

\* the end of the try block (return) or the except clause and what follows it;
\* whole: the text parsed was all of ai_text; try: what the try block did
AfterTry(ai_text, whole, try) ==
    IF try.exc = "none"
    THEN [raised |-> FALSE, tier |-> IF whole THEN 1 ELSE 2, rec |-> try.rec]
    ELSE IF Caught(try.exc)
    THEN [raised |-> FALSE, tier |-> 3, rec |-> Heuristic(ai_text)]
    ELSE [raised |-> TRUE, tier |-> 0, rec |-> VNone]

\* faulty variant: an empty response is answered from the transcript
coerce_notes_or_transcript(ai_text, transcript) ==
    IF Strip(ai_text) = <<>>
    THEN [raised |-> FALSE, tier |-> 3,
          rec |-> Notes(VStr(Take(transcript, 400)), VList(<<>>), VList(<<>>), VList(<<>>),
                        VStr(S_Unknown))]
    ELSE AfterTry(ai_text, loose_json_extract(ai_text) = ai_text, TryJson(loose_json_extract(ai_text)))

\* faulty variant: the heuristic reads the extracted brace substring
coerce_notes_from_raw(ai_text, transcript) ==
    AfterTry(loose_json_extract(ai_text), loose_json_extract(ai_text) = ai_text,
             TryJson(loose_json_extract(ai_text)))

coerce_structured_notes(ai_text, transcript) ==
    AfterTry(ai_text, loose_json_extract(ai_text) = ai_text, TryJson(loose_json_extract(ai_text)))

\* --------------------------------------------------------------------------
\* json.dumps (json.encoder) with its defaults: ensure_ascii, ", " and ": "
\* --------------------------------------------------------------------------
\* py_encode_basestring_ascii without the quotes, from position i on
RECURSIVE JsonEscape(_, _)
JsonEscape(s, i) ==
    LET j == FirstIdx(i, Len(s), LAMBDA k : s[k] \in {"\"", "\\", "\n", "\t", Bullet})
    IN  IF j = 0 THEN From(s, i)
        ELSE SubSeq(s, i, j - 1)
             \o (CASE s[j] = "\n" -> <<"\\", "n">>
                   [] s[j] = "\t" -> <<"\\", "t">>
                   [] s[j] = Bullet -> <<"\\", "u">> \o BulletCode
                   [] OTHER -> <<"\\", s[j]>>)
             \o JsonEscape(s, j + 1)
JsonString(s) == <<"\"">> \o JsonEscape(s, 1) \o <<"\"">>

RECURSIVE JsonDumps(_), DumpItems(_, _), DumpPairs(_, _, _)
JsonDumps(v) ==
    CASE v.t = "None" -> <<"n", "u", "l", "l">>
      [] v.t = "bool" -> IF v.n = 1 THEN <<"t", "r", "u", "e">> ELSE <<"f", "a", "l", "s", "e">>
      [] v.t = "int" -> IntToChars(v.n)
      [] v.t = "str" -> JsonString(v.s)
      [] v.t = "list" -> <<"[">> \o DumpItems(v.xs, 1) \o <<"]">>
      [] v.t = "dict" -> <<"{">> \o DumpPairs(v.ks, v.xs, 1) \o <<"}">>
DumpItems(xs, i) ==
    IF i > Len(xs) THEN <<>>
    ELSE JsonDumps(xs[i]) \o (IF i < Len(xs) THEN <<",", " ">> ELSE <<>>) \o DumpItems(xs, i + 1)
DumpPairs(ks, xs, i) ==
    IF i > Len(ks) THEN <<>>
    ELSE JsonString(ks[i]) \o <<":", " ">> \o JsonDumps(xs[i])
         \o (IF i < Len(ks) THEN <<",", " ">> ELSE <<>>) \o DumpPairs(ks, xs, i + 1)

\* --------------------------------------------------------------------------
\* summarize_text
\* --------------------------------------------------------------------------
PromptBudget == 12000
FallbackBudget == 400

\* the f-string: the parts of the prompt that vary with the arguments
\* faulty variant: the transcript is embedded whole
BuildPromptTextWhole(lang_name, transcript) ==
    [lang_name |-> lang_name, transcript |-> transcript]

BuildPromptText(lang_name, transcript) ==
    [lang_name |-> lang_name, transcript |-> Take(transcript, PromptBudget)]

\* faulty variant: the marker is appended from length 400 on
DegenerateAtLeast(transcript) ==
    Notes(VStr(Take(transcript, FallbackBudget)
               \o (IF Len(transcript) >= FallbackBudget THEN S_Ellipsis ELSE <<>>)),
          VList(<<>>), VList(<<>>), VList(<<>>), VStr(S_Unknown))

\* the record of the except branch
Degenerate(transcript) ==
    Notes(VStr(Take(transcript, FallbackBudget)
               \o (IF Len(transcript) > FallbackBudget THEN S_Ellipsis ELSE <<>>)),
          VList(<<>>), VList(<<>>), VList(<<>>), VStr(S_Unknown))

\* ai_text of a response: "" without choices, else message.content or ""
ResponseText(response) ==
    IF response.choices THEN Or(response.content, VStr(<<>>)).s ELSE <<>>

\* --------------------------------------------------------------------------
\* Inputs
\* --------------------------------------------------------------------------
MaxOver == 2          \* transcripts run up to FallbackBudget + MaxOver characters
MaxRawLen == 2        \* every string over RawAlphabet up to this length
MaxEntries == 12      \* candidate list entries in one response

\* a transcript of n characters whose characters differ by position
Transcript(n) == [i \in 1..n |-> DigitChars[(i % 10) + 1]]
Transcripts ==
    {Transcript(n) : n \in {0, 1} \cup ((FallbackBudget - 1)..(FallbackBudget + MaxOver))
                              \cup ((PromptBudget - 1)..(PromptBudget + 1))}

\* w with the characters at the positions U in upper case
Cased(w, U) ==
    [i \in 1..Len(w) |-> IF i \in U THEN UpperChars[CHOOSE k \in 1..26 : LowerChars[k] = w[i]] ELSE w[i]]
Languages ==
    {VNone, VStr(<<>>), VStr(<<"f", "r">>), VStr(<<" ", "e", "n">>), VStr(<<"e">>)}
    \cup {VStr(Cased(LangKeys[k], U)) : k \in 1..3, U \in SUBSET (1..2)}
    \cup {VStr(Cased(LangKeys[k], U)) : k \in 4..7, U \in {{}, {1}, 1..7}}

\* (transcript, target_language) of a call: every transcript with one language,
\* every language with one transcript
Calls ==
    (Transcripts \X {VStr(<<"a", "u", "t", "o">>)})
    \cup ({Transcript(FallbackBudget + 1)} \X Languages)

\* the strings over alphabet of length at most n
StringsUpTo(alphabet, n) == UNION {[1..k -> alphabet] : k \in 0..n}
RawAlphabet == {"{", "}", "\"", " "}
\* longer texts with unbalanced or reversed braces, and whitespace only
BraceTexts ==
    {<<"{", "{", "}">>, <<"}", "{", "}">>, <<"{", "}", "}">>, <<"}", "}", "{", "{">>,
     <<"{", "\"", "}", "\"">>, <<" ", "\n", "\t">>, <<"\n", "{", "}", "\n">>, <<"{", "[", "}", "]">>}

Chars1(c) == <<c>>
\* the string "<c><k>", e.g. p7
Label(c, k) == <<c>> \o NatToChars(k)
StrList(c, n) == VList([k \in 1..n |-> VStr(Label(c, k))])
TaskList(n) == VList([k \in 1..n |-> VDict(<<K_task>>, <<VStr(Label("t", k))>>)])
ListSizes == {0, 1, MaxItems - 1, MaxItems, MaxItems + 1, MaxEntries}

\* values a list field of the response object may hold
ListValues ==
    {StrList("p", n) : n \in ListSizes}
    \cup {VStr(<<"a", "b">>), VInt(5), VInt(0), VBool(TRUE), VBool(FALSE), VNone,
          VDict(<<Chars1("k"), Chars1("j")>>, <<VInt(1), VNone>>),
          VList(<<VInt(1), VNone, VBool(TRUE), VStr(<<"x">>), VList(<<VStr(<<"y">>), VInt(-2)>>),
                  VDict(<<Chars1("k")>>, <<VStr(<<"'">>)>>)>>)}
ItemValues ==
    {TaskList(n) : n \in ListSizes}
    \cup {VList(<<VStr(<<"b", "a", "r", "e">>), VInt(7), VNone>>),
          VList(<<VDict(ItemKeys, <<VInt(0), VBool(FALSE), VNone>>),
                  VDict(ItemKeys, <<VInt(5), VBool(TRUE), VList(<<VInt(1)>>)>>),
                  VDict(<<Chars1("x")>>, <<VInt(1)>>)>>),
          VDict(<<K_task>>, <<VStr(<<"x">>)>>), VStr(<<"a", "b">>), VInt(3), VNone}
SummaryValues ==
    {VStr(<<"M", "e", "t">>), VStr(<<>>), VInt(5), VInt(0), VNone, VBool(TRUE),
     VList(<<VStr(<<"a">>), VInt(1)>>)}
SentimentValues ==
    {VStr(S_Positive), VStr(S_Neutral), VStr(S_Negative), VStr(S_Unknown), VStr(Lower(S_Positive)),
     VStr(<<" ">> \o S_Positive), VStr(S_Neutral \o <<" ">>), VStr(<<"H", "a", "p", "p", "y">>),
     VStr(<<>>), VNone, VInt(1), VBool(TRUE), VList(<<VStr(S_Positive)>>)}

\* Scenario A, with short strings
BaseObject ==
    Notes(VStr(<<"M", "e", "t">>), StrList("p", 1),
          VList(<<ActionItem(VStr(<<"S", "e", "n", "d">>), VStr(<<"A", "n", "a">>), VStr(<<"F", "r", "i">>))>>),
          StrList("d", 1), VStr(S_Positive))

\* d without its i-th key
DictDrop(d, i) ==
    VDict([k \in 1..(Len(d.ks) - 1) |-> IF k < i THEN d.ks[k] ELSE d.ks[k + 1]],
          [k \in 1..(Len(d.xs) - 1) |-> IF k < i THEN d.xs[k] ELSE d.xs[k + 1]])

\* response objects: Scenario A with one field changed, dropped or added
Objects ==
    {BaseObject, VDict(<<>>, <<>>), DictSet(BaseObject, Chars1("x"), VInt(1))}
    \cup {DictSet(BaseObject, K_executive_summary, v) : v \in SummaryValues}
    \cup {DictSet(BaseObject, K_key_points, v) : v \in ListValues}
    \cup {DictSet(BaseObject, K_decisions, v) : v \in ListValues}
    \cup {DictSet(BaseObject, K_action_items, v) : v \in ItemValues}
    \cup {DictSet(BaseObject, K_sentiment, v) : v \in SentimentValues}
    \cup {DictDrop(BaseObject, i) : i \in 1..5}
ObjectTexts == {JsonDumps(o) : o \in Objects}

\* JSON texts that are not an object
OtherJsonTexts ==
    {JsonDumps(v) : v \in {VList(<<VInt(1)>>), VStr(<<"s">>), VInt(5), VInt(-1), VNone,
                            VBool(TRUE), VList(<<BaseObject>>)}}

\* Scenario B: the prose and code fence before the JSON
FencePrefix ==
    <<"S", "u", "r", "e", ",", " ", "h", "e", "r", "e", " ", "y", "o", "u", " ", "g", "o", ":",
      "\n", Backtick, Backtick, Backtick, "j", "s", "o", "n", "\n">>

\* Scenario B: the code fence and prose after the JSON
FenceSuffix ==
    <<"\n", Backtick, Backtick, Backtick, "\n", "L", "e", "t", " ", "m", "e", " ", "k", "n", "o",
      "w", "!">>

\* Scenario C: plain prose
ScenarioC ==
    <<"-", " ", "D", "i", "s", "c", "u", "s", "s", "e", "d", " ", "b", "u", "d", "g", "e", "t",
      "\n", "-", " ", "A", "c", "t", "i", "o", "n", ":", " ", "S", "e", "n", "d", " ", "r", "e",
      "p", "o", "r", "t", " ", "o", "w", "n", "e", "r", ":", " ", "A", "n", "a", " ", "d", "u",
      "e", ":", " ", "F", "r", "i", "d", "a", "y", "\n", "D", "e", "c", "i", "s", "i", "o", "n",
      ":", " ", "S", "h", "i", "p", " ", "v", "2", ".", " ", "O", "v", "e", "r", "a", "l", "l",
      " ", "s", "e", "n", "t", "i", "m", "e", "n", "t", " ", "w", "a", "s", " ", "p", "o", "s",
      "i", "t", "i", "v", "e", ".">>

\* JSON with whitespace between tokens and a repeated key
SpacedJson ==
    <<"{", " ", "\"", "k", "e", "y", "_", "p", "o", "i", "n", "t", "s", "\"", " ", ":", " ", "[",
      " ", "\"", "a", "\"", " ", ",", " ", "1", " ", "]", " ", ",", "\n", "\t", "\"", "s", "e",
      "n", "t", "i", "m", "e", "n", "t", "\"", ":", "\"", "N", "e", "u", "t", "r", "a", "l",
      "\"", " ", ",", " ", "\"", "s", "e", "n", "t", "i", "m", "e", "n", "t", "\"", " ", ":",
      " ", "\"", "N", "e", "g", "a", "t", "i", "v", "e", "\"", " ", "}">>

\* JSON whose strings hold escapes and braces
EscapedJson ==
    <<"{", "\"", "e", "x", "e", "c", "u", "t", "i", "v", "e", "_", "s", "u", "m", "m", "a", "r",
      "y", "\"", ":", " ", "\"", "a", "\\", "n", "\\", "\"", "b", "\\", "\"", " ", "\\", "\\",
      " ", "\\", "u", "2", "0", "2", "2", " ", "}", "{", "\"", ",", " ", "\"", "d", "e", "c",
      "i", "s", "i", "o", "n", "s", "\"", ":", " ", "[", "\"", "x", "\\", "t", "y", "\"", "]",
      "}">>

\* not JSON: a trailing comma
TrailingComma ==
    <<"{", "\"", "k", "e", "y", "_", "p", "o", "i", "n", "t", "s", "\"", ":", " ", "[", "\"",
      "a", "\"", "]", ",", "}">>

\* not JSON: two objects
TwoObjects ==
    <<"{", "\"", "s", "e", "n", "t", "i", "m", "e", "n", "t", "\"", ":", " ", "\"", "P", "o",
      "s", "i", "t", "i", "v", "e", "\"", "}", " ", "{", "\"", "s", "e", "n", "t", "i", "m", "e",
      "n", "t", "\"", ":", " ", "\"", "N", "e", "g", "a", "t", "i", "v", "e", "\"", "}">>

\* an object followed by prose with a closing brace
BraceInString ==
    <<"{", "\"", "e", "x", "e", "c", "u", "t", "i", "v", "e", "_", "s", "u", "m", "m", "a", "r",
      "y", "\"", ":", " ", "\"", "a", " ", "}", " ", "b", "\"", "}", " ", "t", "r", "a", "i",
      "l", "i", "n", "g", " ", "}">>

\* prose with separated owner and due fragments
ProsePipes ==
    <<"T", "O", "D", "O", ":", " ", "c", "a", "l", "l", " ", "B", "o", "b", " ", "|", " ", "o",
      "w", "n", "e", "r", ":", " ", "B", "o", "b", " ", "|", " ", "d", "u", "e", ":", " ", "M",
      "o", "n", "\n", "t", "a", "s", "k", "-", " ", "p", "a", "y", ",", " ", "o", "w", "n", "e",
      "r", " ", "-", " ", "A", "l", ";", " ", "d", "u", "e", ":", "T", "u", "e", "\n", "W", "e",
      " ", "d", "e", "c", "i", "d", "e", "d", " ", "n", "o", "t", "h", "i", "n", "g", ".", "\n",
      "n", "o", "t", " ", "n", "e", "g", "a", "t", "i", "v", "e", " ", "b", "u", "t", " ", "n",
      "e", "u", "t", "r", "a", "l">>

\* prose at the edges of the patterns
ProseEdge ==
    <<"*", " ", "m", "y", " ", "t", "a", "s", "k", "\n", Bullet, " ", "t", "a", "s", "k", ":",
      "\n", "-", "\n", "\n", "-", " ", "a", "c", "t", "i", "o", "n", " ", "o", "w", "n", "e",
      "r", ":", " ", "\n", "u", "n", "d", "e", "c", "i", "d", "e", "d", " ", "i", "n", "a", "c",
      "t", "i", "o", "n", " ", "p", "o", "s", "i", "t", "i", "v", "e", "_">>

\* prose and code fences around JSON
Prefixes == {<<>>, <<"x", " ">>, <<"}", " ">>, FencePrefix}
Suffixes == {<<>>, <<" ", "y">>, <<" ", "{">>, FenceSuffix}
WrappedTexts ==
    {p \o JsonDumps(o) \o x :
        p \in Prefixes, x \in Suffixes,
        o \in {BaseObject, DictSet(BaseObject, K_key_points, VInt(5))}}

\* JSON cut short
TruncatedTexts ==
    {Take(JsonDumps(BaseObject), n) : n \in {1, 2, 20, Len(JsonDumps(BaseObject)) - 1}}

\* n lines "<head><c><k>"
RECURSIVE LinesOf(_, _, _)
LinesOf(head, c, n) ==
    IF n = 0 THEN <<>>
    ELSE LinesOf(head, c, n - 1) \o (IF n > 1 THEN <<"\n">> ELSE <<>>) \o head \o Label(c, n)
ProseTexts ==
    {ScenarioC, ProsePipes, ProseEdge, [i \in 1..(SummaryBudget + 1) |-> "a"]}
    \cup {LinesOf(<<"-", " ">>, "p", n) : n \in ListSizes}
    \cup {LinesOf(<<"t", "a", "s", "k", " ">>, "t", n) : n \in ListSizes}
    \cup {LinesOf(<<"d", "e", "c", "i", "d", "e", "d", " ">>, "d", n) : n \in ListSizes}
    \cup {LinesOf(<<"*", " ", "T", "o", "d", "o", ":", " ", "D", "e", "c", "i", "s", "i", "o", "n", " ">>, "n", MaxEntries)}

\* the texts a provider returns
Responses ==
    StringsUpTo(RawAlphabet, MaxRawLen) \cup BraceTexts \cup ObjectTexts \cup OtherJsonTexts \cup WrappedTexts
    \cup TruncatedTexts \cup ProseTexts
    \cup {SpacedJson, EscapedJson, TrailingComma, TwoObjects, BraceInString}

\* the response objects: content is a str or None, or there are no choices
ProviderResponses ==
    {[choices |-> TRUE, content |-> VStr(t)] : t \in Responses}
    \cup {[choices |-> TRUE, content |-> VNone], [choices |-> FALSE, content |-> VNone]}
NoResponse == [choices |-> FALSE, content |-> VInt(0)]
NotParsed == [raised |-> FALSE, tier |-> 0, rec |-> VNone]

\* --------------------------------------------------------------------------
\* State
\* --------------------------------------------------------------------------
VARIABLES
    transcript,        \* argument: a str
    target_language,   \* argument: a str or None
    pc,                \* "start", "call" (prompt built, provider called), "done"
    lang_name,         \* the resolved language
    prompt,            \* the prompt sent to the provider
    outcome,           \* "none", "returned", "failed": what the provider call did
    response,          \* the response object when the call returned
    ai_text,           \* the text taken from the response
    parsed,            \* what _coerce_structured_notes did: [raised, tier, rec]
    structured,        \* the returned record
    tier,              \* which path produced it: 1, 2, 3 (parser) or 4 (except branch)
    raised             \* an exception left summarize_text

vars == <<transcript, target_language, pc, lang_name, prompt, outcome, response, ai_text,
          parsed, structured, tier, raised>>

Init ==
    /\ \E c \in Calls : transcript = c[1] /\ target_language = c[2]
    /\ pc = "start"
    /\ lang_name = <<>>
    /\ prompt = BuildPromptText(<<>>, <<>>)
    /\ outcome = "none"
    /\ response = NoResponse
    /\ ai_text = <<>>
    /\ parsed = NotParsed
    /\ structured = VNone
    /\ tier = 0
    /\ raised = FALSE

\* lines 201-226: resolve the language and build the prompt
BuildPrompt ==
    /\ pc = "start"
    /\ lang_name' = code_to_lang_name(target_language)
    /\ prompt' = BuildPromptText(lang_name', transcript)
    /\ pc' = "call"
    /\ UNCHANGED <<transcript, target_language, outcome, response, ai_text, parsed, structured,
                   tier, raised>>

\* faulty variant of the step below: a text that is not JSON is answered with
\* the record of the except branch
ProviderReturnsOrFallback ==
    /\ pc = "call"
    /\ \E r \in ProviderResponses :
        \E c \in {coerce_structured_notes(ResponseText(r), transcript)} :
            /\ response' = r
            /\ ai_text' = ResponseText(r)
            /\ parsed' = c
            /\ structured' = IF c.raised \/ c.tier = 3 THEN Degenerate(transcript) ELSE c.rec
            /\ tier' = IF c.raised \/ c.tier = 3 THEN 4 ELSE c.tier
    /\ outcome' = "returned"
    /\ pc' = "done"
    /\ raised' = FALSE
    /\ UNCHANGED <<transcript, target_language, lang_name, prompt>>

\* lines 229-245: the call returns r; the text is parsed and the record returned.
\* An exception leaving the parser is caught by "except Exception" (lines 247-255).
ProviderReturns ==
    /\ pc = "call"
    /\ \E r \in ProviderResponses :
        \E c \in {coerce_structured_notes(ResponseText(r), transcript)} :
            /\ response' = r
            /\ ai_text' = ResponseText(r)
            /\ parsed' = c
            /\ structured' = IF c.raised THEN Degenerate(transcript) ELSE c.rec
            /\ tier' = IF c.raised THEN 4 ELSE c.tier
    /\ outcome' = "returned"
    /\ pc' = "done"
    /\ raised' = FALSE
    /\ UNCHANGED <<transcript, target_language, lang_name, prompt>>

\* lines 229, 247-255: the call raises; the except branch returns the degenerate record
ProviderFails ==
    /\ pc = "call"
    /\ outcome' = "failed"
    /\ structured' = Degenerate(transcript)
    /\ tier' = 4
    /\ pc' = "done"
    /\ raised' = FALSE
    /\ UNCHANGED <<transcript, target_language, lang_name, prompt, response, ai_text, parsed>>

Next == BuildPrompt \/ ProviderReturns \/ ProviderFails

Spec == Init /\ [][Next]_vars

\* --------------------------------------------------------------------------
\* Properties
\* --------------------------------------------------------------------------
ListKeys == {K_key_points, K_action_items, K_decisions}
ClosedSentiments == {VStr(S_Positive), VStr(S_Neutral), VStr(S_Negative)}

\* C1: summarize_text never raises and, once it has returned, its result is a
\* record, whatever the provider call did; _coerce_structured_notes never
\* raises on the text it is given and returns a record.
C1_NeverRaises ==
    /\ raised = FALSE
    /\ parsed.raised = FALSE
    /\ pc = "done" => structured.t = "dict"
    /\ outcome = "returned" => parsed.rec.t = "dict"

\* the parser was given reversed braces and returned a record
C1_Witness ==
    /\ outcome = "returned"
    /\ ai_text = <<"}", "{">>
    /\ parsed.rec.t = "dict"
    /\ structured = parsed.rec

\* C2: in the returned record key_points, action_items and decisions hold at
\* most 10 entries each, whichever path produced it.
C2_Capped ==
    pc = "done" => \A k \in ListKeys : Len(DictGet(structured, k, VNone).xs) <= 10

\* the heuristic path found more than 10 bullet lines and kept 10
C2_Witness ==
    /\ pc = "done"
    /\ tier = 3
    /\ Len(Bullets(ai_text, 1)) > 10
    /\ Len(DictGet(structured, K_key_points, VNone).xs) = 10

\* C3: sentiment of the returned record is one of Positive, Neutral, Negative,
\* Unknown; on the JSON paths it is the value of the parsed object when that
\* value is exactly one of the strings Positive, Neutral, Negative, and
\* Unknown for every other value (missing, null, not a string, other case or
\* spacing).
C3_SentimentClosed ==
    pc = "done" =>
        /\ DictGet(structured, K_sentiment, VNone) \in ClosedSentiments \cup {VStr(S_Unknown)}
        /\ tier \in {1, 2} =>
            DictGet(structured, K_sentiment, VNone)
                = IF DictGet(JsonLoads(loose_json_extract(ai_text)).v, K_sentiment, VNone)
                        \in ClosedSentiments
                  THEN DictGet(JsonLoads(loose_json_extract(ai_text)).v, K_sentiment, VNone)
                  ELSE VStr(S_Unknown)

\* the parsed object said "positive" in lower case and the record says Unknown
C3_Witness ==
    /\ pc = "done"
    /\ tier = 1
    /\ DictGet(JsonLoads(ai_text).v, K_sentiment, VNone) = VStr(<<"p", "o", "s", "i", "t", "i", "v", "e">>)
    /\ DictGet(structured, K_sentiment, VNone) = VStr(S_Unknown)

\* C4: the returned record has exactly the five fields; the summary and the
\* sentiment are strings, the three list fields are lists, the entries of
\* key_points and decisions are strings and every entry of action_items is a
\* mapping with exactly the keys task, owner, due and string values.
C4_Shape ==
    pc = "done" =>
        /\ structured.t = "dict"
        /\ structured.ks = RecordKeys
        /\ Len(structured.xs) = 5
        /\ structured.xs[1].t = "str"
        /\ structured.xs[5].t = "str"
        /\ \A i \in {2, 3, 4} : structured.xs[i].t = "list"
        /\ \A i \in {2, 4} : \A j \in 1..Len(structured.xs[i].xs) : structured.xs[i].xs[j].t = "str"
        /\ \A j \in 1..Len(structured.xs[3].xs) :
            /\ structured.xs[3].xs[j].t = "dict"
            /\ structured.xs[3].xs[j].ks = ItemKeys
            /\ Len(structured.xs[3].xs[j].xs) = 3
            /\ \A m \in 1..3 : structured.xs[3].xs[j].xs[m].t = "str"

\* the parsed object's action_items held a mapping with values that are not
\* strings, and one without the three keys
C4_Witness ==
    /\ pc = "done"
    /\ tier = 1
    /\ \E j \in 1..Len(DictGet(JsonLoads(ai_text).v, K_action_items, VNone).xs) :
        /\ DictGet(JsonLoads(ai_text).v, K_action_items, VNone).xs[j].t = "dict"
        /\ DictGet(JsonLoads(ai_text).v, K_action_items, VNone).xs[j].ks # ItemKeys
    /\ \E j \in 1..Len(DictGet(JsonLoads(ai_text).v, K_action_items, VNone).xs) :
        DictGet(DictGet(JsonLoads(ai_text).v, K_action_items, VNone).xs[j], K_due, VNone).t = "list"
    /\ Len(structured.xs[3].xs) = 3

\* C5: the record of the except branch is returned exactly when the provider
\* call failed; when the call returned, the record is what tiers 1-3 make of
\* the returned text.
C5_DegenerateIffFailed ==
    pc = "done" =>
        /\ tier = 4 <=> outcome = "failed"
        /\ outcome = "returned" =>
            /\ tier \in {1, 2, 3}
            /\ ai_text = ResponseText(response)
            /\ structured = coerce_structured_notes(ai_text, transcript).rec

\* the call returned a message without content: the heuristic answered, not
\* the except branch
C5_Witness ==
    /\ outcome = "returned"
    /\ response.choices
    /\ response.content = VNone
    /\ tier = 3
    /\ structured # Degenerate(transcript)

\* C6: after a failed call the summary is the first 400 characters of the
\* transcript, followed by "..." exactly when the transcript is longer than
\* 400; the lists are empty and sentiment is Unknown.
C6_DegenerateContent ==
    outcome = "failed" =>
        /\ structured.ks = RecordKeys
        /\ Len(structured.xs[1].s) = IF Len(transcript) > 400 THEN 403 ELSE Len(transcript)
        /\ \A i \in 1..Len(structured.xs[1].s) :
            structured.xs[1].s[i] = IF i <= 400 THEN transcript[i] ELSE "."
        /\ \A i \in {2, 3, 4} : structured.xs[i] = VList(<<>>)
        /\ structured.xs[5] = VStr(S_Unknown)

\* the call failed on a transcript of more than 400 characters
C6_Witness ==
    /\ outcome = "failed"
    /\ Len(transcript) > 400
    /\ Len(structured.xs[1].s) = 403

\* C7: when the returned text J is a valid JSON object text, prose P without
\* "{" before it and prose S without "}" after it do not change the record:
\* parsing P + J + S gives the record parsing J gave.
C7_WrappedParsesAlike ==
    (outcome = "returned" /\ JsonLoads(ai_text).ok /\ JsonLoads(ai_text).v.t = "dict") =>
        \A p \in Prefixes, x \in Suffixes :
            (Find(p, "{") = 0 /\ Find(x, "}") = 0) =>
                coerce_structured_notes(p \o ai_text \o x, transcript).rec = structured

\* C8: on the JSON paths each list of the record is the first 10 entries of
\* the parsed object's list, coerced, in their order; all of them when there
\* are 10 or fewer.
C8_FirstTenInOrder ==
    (pc = "done" /\ tier \in {1, 2}) =>
        /\ \A k \in {K_key_points, K_decisions} :
            DictGet(JsonLoads(loose_json_extract(ai_text)).v, k, VNone).t = "list" =>
                /\ Len(DictGet(structured, k, VNone).xs)
                     = Min(Len(DictGet(JsonLoads(loose_json_extract(ai_text)).v, k, VNone).xs), 10)
                /\ \A j \in 1..Len(DictGet(structured, k, VNone).xs) :
                    DictGet(structured, k, VNone).xs[j]
                      = VStr(PyStr(DictGet(JsonLoads(loose_json_extract(ai_text)).v, k, VNone).xs[j]))
        /\ DictGet(JsonLoads(loose_json_extract(ai_text)).v, K_action_items, VNone).t = "list" =>
                /\ Len(DictGet(structured, K_action_items, VNone).xs)
                     = Min(Len(DictGet(JsonLoads(loose_json_extract(ai_text)).v, K_action_items, VNone).xs), 10)
                /\ \A j \in 1..Len(DictGet(structured, K_action_items, VNone).xs) :
                    DictGet(structured, K_action_items, VNone).xs[j]
                      = CoerceItem(DictGet(JsonLoads(loose_json_extract(ai_text)).v, K_action_items, VNone).xs[j])

\* the parsed object listed more than 10 key points and the record holds 10
C8_Witness ==
    /\ pc = "done"
    /\ tier = 1
    /\ Len(DictGet(JsonLoads(ai_text).v, K_key_points, VNone).xs) > 10
    /\ Len(DictGet(structured, K_key_points, VNone).xs) = 10

\* C9: serialising the record the parser returned and parsing that text
\* returns the same record.
C9_Idempotent ==
    outcome = "returned" =>
        coerce_structured_notes(JsonDumps(structured), transcript)
            = [raised |-> FALSE, tier |-> 1, rec |-> structured]

\* the record holds a summary with a quote, a backslash, a newline and braces,
\* which serialisation has to escape
C9_Witness ==
    /\ outcome = "returned"
    /\ tier = 1
    /\ {"\"", "\\", "\n", "}", "{"} \subseteq Range(structured.xs[1].s)
    /\ JsonDumps(structured) # ai_text

\* C10: the resolved language depends on the lower-cased code only: en and
\* english give English, ur and urdu Urdu, hi and hindi Hindi, everything
\* else (auto, empty, None, unknown codes) English; it is the language the
\* prompt names.
C10_Language ==
    pc # "start" =>
        /\ lang_name \in {S_English, S_Urdu, S_Hindi}
        /\ prompt.lang_name = lang_name
        /\ lang_name = S_Urdu <=>
            /\ target_language.t = "str"
            /\ Lower(target_language.s) \in {<<"u", "r">>, <<"u", "r", "d", "u">>}
        /\ lang_name = S_Hindi <=>
            /\ target_language.t = "str"
            /\ Lower(target_language.s) \in {<<"h", "i">>, <<"h", "i", "n", "d", "i">>}

\* the code UR in upper case resolved to Urdu
C10_Witness ==
    /\ pc # "start"
    /\ target_language = VStr(<<"U", "R">>)
    /\ lang_name = S_Urdu
    /\ prompt.lang_name = S_Urdu

\* C11: for the Scenario C text the heuristic yields key_points equal to
\* ["Discussed budget"], decisions equal to the third line alone, and
\* sentiment Positive.
C11_ScenarioCKeyPoints ==
    (outcome = "returned" /\ ai_text = ScenarioC) =>
        /\ DictGet(structured, K_key_points, VNone).xs
             = <<VStr(<<"D", "i", "s", "c", "u", "s", "s", "e", "d", " ", "b", "u", "d", "g", "e", "t">>)>>
        /\ DictGet(structured, K_decisions, VNone).xs
             = <<VStr(<<"D", "e", "c", "i", "s", "i", "o", "n", ":", " ", "S", "h", "i",
                        "p", " ", "v", "2", ".", " ", "O", "v", "e", "r", "a", "l", "l",
                        " ", "s", "e", "n", "t", "i", "m", "e", "n", "t", " ", "w", "a",
                        "s", " ", "p", "o", "s", "i", "t", "i", "v", "e", ".">>)>>
        /\ DictGet(structured, K_sentiment, VNone) = VStr(S_Positive)

\* C12: for the Scenario C text the heuristic yields one action item whose
\* task contains "Send report", whose owner is "Ana" and whose due is
\* "Friday": the owner value does not run into the due fragment.
C12_ScenarioCActionItem ==
    (outcome = "returned" /\ ai_text = ScenarioC) =>
        /\ Len(DictGet(structured, K_action_items, VNone).xs) = 1
        /\ \E i \in 1..Len(DictGet(structured, K_action_items, VNone).xs[1].xs[1].s) :
            MatchAt(DictGet(structured, K_action_items, VNone).xs[1].xs[1].s, i,
                    <<"S", "e", "n", "d", " ", "r", "e", "p", "o", "r", "t">>)
        /\ DictGet(structured, K_action_items, VNone).xs[1].xs[2] = VStr(<<"A", "n", "a">>)
        /\ DictGet(structured, K_action_items, VNone).xs[1].xs[3] = VStr(<<"F", "r", "i", "d", "a", "y">>)

\* C13: whenever the text handed to json.loads is a JSON object, the record
\* is its normalisation (tier 1 or 2): a string executive_summary of the
\* object is the record's summary, and a list field whose value is not a list
\* contributes no entries (none made of its characters or keys).
C13_SchemaCorrected ==
    (/\ outcome = "returned"
     /\ JsonLoads(loose_json_extract(ai_text)).ok
     /\ JsonLoads(loose_json_extract(ai_text)).v.t = "dict") =>
        /\ tier \in {1, 2}
        /\ DictGet(JsonLoads(loose_json_extract(ai_text)).v, K_executive_summary, VNone).t = "str" =>
            structured.xs[1]
                = DictGet(JsonLoads(loose_json_extract(ai_text)).v, K_executive_summary, VNone)
        /\ \A k \in ListKeys :
            DictGet(JsonLoads(loose_json_extract(ai_text)).v, k, VList(<<>>)).t # "list" =>
                DictGet(structured, k, VNone).xs = <<>>

\* C14: when json.loads fails on the extracted text, or returns a value that
\* is not an object, or list() raises on a field (a non-zero number or true),
\* the record is the heuristic record of the whole response text: its summary
\* is the stripped response, not the brace substring; the except branch of
\* summarize_text is not taken and no exception leaves either function.
C14_FallsToHeuristic ==
    outcome = "returned" =>
        \E data \in {JsonLoads(loose_json_extract(ai_text))} :
            (\/ ~data.ok
             \/ data.v.t # "dict"
             \/ \E k \in ListKeys :
                 /\ DictGet(data.v, k, VNone).t \in {"int", "bool"}
                 /\ DictGet(data.v, k, VNone).n # 0) =>
                /\ tier = 3
                /\ structured = Heuristic(ai_text)
                /\ structured.xs[1].s = Take(Strip(ai_text), 2000)
                /\ raised = FALSE
                /\ parsed.raised = FALSE

\* prose around a JSON object whose key_points is a number: normalisation
\* raised and the heuristic read the whole text
C14_Witness ==
    /\ outcome = "returned"
    /\ tier = 3
    /\ loose_json_extract(ai_text) # ai_text
    /\ JsonLoads(loose_json_extract(ai_text)).ok
    /\ DictGet(JsonLoads(loose_json_extract(ai_text)).v, K_key_points, VNone).t = "int"
    /\ structured.xs[1].s = Strip(ai_text)

\* C15: on the JSON paths, when action_items is a list, the record holds one
\* item per entry, in order, up to 10; a mapping entry gives for each of task,
\* owner, due the string form of the value when the key exists (0 gives "0",
\* false gives "False") and "" when it is missing; any other entry gives
\* its string form as task and "" as owner and due.
C15_ItemCoercion ==
    (/\ outcome = "returned"
     /\ tier \in {1, 2}
     /\ DictGet(JsonLoads(loose_json_extract(ai_text)).v, K_action_items, VNone).t = "list") =>
        /\ Len(DictGet(structured, K_action_items, VNone).xs)
             = Min(Len(DictGet(JsonLoads(loose_json_extract(ai_text)).v, K_action_items, VNone).xs), 10)
        /\ \A j \in 1..Len(DictGet(structured, K_action_items, VNone).xs) :
            IF DictGet(JsonLoads(loose_json_extract(ai_text)).v, K_action_items, VNone).xs[j].t = "dict"
            THEN \A m \in 1..3 :
                    DictGet(DictGet(structured, K_action_items, VNone).xs[j], ItemKeys[m], VNone)
                      = IF \E i \in 1..Len(DictGet(JsonLoads(loose_json_extract(ai_text)).v,
                                                   K_action_items, VNone).xs[j].ks) :
                              DictGet(JsonLoads(loose_json_extract(ai_text)).v,
                                      K_action_items, VNone).xs[j].ks[i] = ItemKeys[m]
                        THEN VStr(PyStr(DictGet(DictGet(JsonLoads(loose_json_extract(ai_text)).v,
                                                        K_action_items, VNone).xs[j],
                                                ItemKeys[m], VNone)))
                        ELSE VStr(<<>>)
            ELSE DictGet(structured, K_action_items, VNone).xs[j]
                   = ActionItem(VStr(PyStr(DictGet(JsonLoads(loose_json_extract(ai_text)).v,
                                                    K_action_items, VNone).xs[j])),
                                VStr(<<>>), VStr(<<>>))

\* C16: the prompt embeds the first 12000 characters of the transcript, all
\* of it when it is shorter, and nothing else of it; after a failed call the
\* summary still starts with the characters of the transcript as it was
\* passed in.
C16_PromptTruncation ==
    pc # "start" =>
        /\ Len(prompt.transcript) = IF Len(transcript) > 12000 THEN 12000 ELSE Len(transcript)
        /\ prompt.transcript = SubSeq(transcript, 1, Len(prompt.transcript))
        /\ outcome = "failed" =>
            SubSeq(structured.xs[1].s, 1, Min(Len(transcript), 400))
                = SubSeq(transcript, 1, Min(Len(transcript), 400))

\* a transcript of more than 12000 characters: the prompt holds 12000 of them
\* and the call failed
C16_Witness ==
    /\ outcome = "failed"
    /\ Len(transcript) > 12000
    /\ Len(prompt.transcript) = 12000
    /\ Len(structured.xs[1].s) = 403

\* C17: the record the parser returns is the same whatever transcript it is
\* given: parsing the same response with another transcript (the empty one,
\* or one that shares no character with the transcript of the call) returns
\* an equal result.
C17_TranscriptIndependent ==
    outcome = "returned" =>
        /\ structured = parsed.rec
        /\ \A t \in {<<>>, <<"z", "z">>} : coerce_structured_notes(ai_text, t) = parsed

\* an empty response, parsed for a transcript that is not empty, gave an
\* empty summary
C17_Witness ==
    /\ outcome = "returned"
    /\ ai_text = <<>>
    /\ Len(transcript) > 0
    /\ structured.xs[1] = VStr(<<>>)

\* the two-step cascade of the specification: tier 1 parses the whole
\* response as a JSON object; only when that fails, tier 2 parses the substring
\* from the first "{" to the last "}"; a failure of both, or an exception in
\* normalisation, leads to the heuristic of tier 3.
\* r: what normalisation did with the object parsed at tier n
CascadeNormalised(text, n, r) ==
    IF r.exc = "none" THEN [tier |-> n, rec |-> r.rec]
    ELSE [tier |-> 3, rec |-> Heuristic(text)]
\* sub: json.loads of the brace substring, a failure when there is none
CascadeTier2(text, sub) ==
    IF sub.ok /\ sub.v.t = "dict" THEN CascadeNormalised(text, 2, Normalise(sub.v))
    ELSE [tier |-> 3, rec |-> Heuristic(text)]
\* whole: json.loads of the whole response
CascadeTier1(text, whole) ==
    IF whole.ok /\ whole.v.t = "dict" THEN CascadeNormalised(text, 1, Normalise(whole.v))
    ELSE CascadeTier2(text, IF Find(text, "{") # 0 /\ RFind(text, "}") > Find(text, "{")
                            THEN JsonLoads(SubSeq(text, Find(text, "{"), RFind(text, "}")))
                            ELSE JFail)
Cascade(text) == CascadeTier1(text, JsonLoads(text))

\* C18: extracting the brace substring first and parsing once returns, for
\* every response, the record of the two-step cascade, by normalisation
\* exactly when the cascade normalises and by the heuristic exactly when the
\* cascade does; when the whole response is a valid JSON object the extracted
\* substring parses to that object.
C18_SingleStepIsCascade ==
    outcome = "returned" =>
        /\ \E c \in {Cascade(ai_text)} :
            /\ structured = c.rec
            /\ tier = 3 <=> c.tier = 3
            /\ tier = 1 => c.tier = 1
            /\ c.tier = 2 => tier = 2
        /\ \E whole \in {JsonLoads(ai_text)} :
            (whole.ok /\ whole.v.t = "dict") => JsonLoads(loose_json_extract(ai_text)).v = whole.v

\* the whole response is a JSON object with whitespace around it: the
\* substring differs from the response and parses to the same object
C18_Witness ==
    /\ outcome = "returned"
    /\ JsonLoads(ai_text).ok
    /\ JsonLoads(ai_text).v.t = "dict"
    /\ loose_json_extract(ai_text) # ai_text
    /\ JsonLoads(loose_json_extract(ai_text)).v = JsonLoads(ai_text).v
    /\ tier = 2

====
